---- MODULE Spec2Model ----
(***************************************************************************)
(* A model of server.mjs: the relay between the Airtable record store and  *)
(* the Wavespeed job API.  Every inbound request runs in a handler of its  *)
(* own; a handler runs atomically from one await to the next, so there is  *)
(* one step per remote call (the call, its effect on the remote side, its  *)
(* response and the code up to the next call).                             *)
(***************************************************************************)
EXTENDS Integers, Sequences, FiniteSets, TLC

(***************************************************************************)
(* Bounds of the model.                                                    *)
(***************************************************************************)
\* the number of requests the relay receives in one behaviour
MaxRequests == 2
\* the longest images list a callback carries
MaxImages == 2

(***************************************************************************)
(* JavaScript values, tagged by typeof.                                    *)
(***************************************************************************)
Undefined == [t |-> "undefined"]
Null == [t |-> "null"]
Str(s) == [t |-> "string", v |-> s]
\* a string spelled out as the sequence of its characters, where the code
\* looks into it (split, trim)
Txt(cs) == [t |-> "string", cs |-> cs]
Bool(b) == [t |-> "boolean", v |-> b]
\* a number as the fraction num/den
Num(n, d) == [t |-> "number", v |-> <<n, d>>]
Whole(n) == Num(n, 1)
\* an array is a sequence, an object a function of its keys
Arr(s) == [t |-> "array", v |-> s]
Obj(f) == [t |-> "object", v |-> f]
EmptyObj == Obj([k \in {} |-> Undefined])

\* ToBoolean: what `!x`, `x || y` and `if (x)` test
Truthy(x) ==
  CASE x.t = "undefined" -> FALSE
    [] x.t = "null" -> FALSE
    [] x.t = "string" -> IF "cs" \in DOMAIN x THEN x.cs # <<>> ELSE x.v # ""
    [] x.t = "boolean" -> x.v
    [] x.t = "number" -> x.v[1] # 0
    [] OTHER -> TRUE

\* x || y
Or(x, y) == IF Truthy(x) THEN x ELSE y

\* o[k], o.k: a key the object lacks reads as undefined
Get(o, k) ==
  IF o.t = "object" /\ k \in DOMAIN o.v THEN o.v[k] ELSE Undefined

\* o?.k (lines 235-236): undefined for a null or undefined o
OptGet(o, k) == IF o.t \in {"undefined", "null"} THEN Undefined ELSE Get(o, k)

\* JSON.stringify of an object drops the keys whose value is undefined
Json(f) == [k \in {j \in DOMAIN f : f[j] # Undefined} |-> f[k]]

(***************************************************************************)
(* Configuration (lines 7-17) and literals of the code.                    *)
(***************************************************************************)
PUBLIC_BASE_URL == "https://relay.example"
AIRTABLE_TABLE_RECREATOR == "Pinterest Recreator"
AIRTABLE_TABLE_POSES == "Pose Variations"
RouteRecreator == "/generate/recreator"
RoutePoses == "/generate/poses"
RouteCallback == "/wavespeed/callback"
UnknownWavespeedError == "Unknown Wavespeed error"
RecordIdRequired == "recordId required"
DefaultSampler == "DPM++ 2M Karras"
DefaultCfgScale == 8
DefaultSteps == 35
DefaultReferenceStrength == Num(85, 100)

(***************************************************************************)
(* The record store (Airtable): two tables of two records each.  A record  *)
(* is the function of its fields.                                          *)
(***************************************************************************)
Tables == {AIRTABLE_TABLE_RECREATOR, AIRTABLE_TABLE_POSES}
RecordIds == {"rec1", "rec2"}
Records == Tables \X RecordIds

ManagedFields ==
  {"Status", "Error Message", "Wavespeed Job ID", "Batch ID", "Output Images"}

Image(u) == Obj([url |-> Str(u)])
\* the fields a user fills in, per record
UserFields(key) ==
  CASE key = <<AIRTABLE_TABLE_RECREATOR, "rec1">> ->
         ("Model ID" :> Str("seedream-4")) @@ ("Prompt" :> Str("a cat"))
           @@ ("CFG" :> Whole(7))
           @@ ("Reference Image URL" :> Str("https://img/ref1"))
           @@ ("Reference Image" :> Arr(<<Image("https://img/att1")>>))
    [] key = <<AIRTABLE_TABLE_POSES, "rec1">> ->
         ("Model ID" :> Str("seedream-4"))
           @@ ("Source Image" :> Arr(<<Image("https://img/src1")>>))
           @@ ("Poses" :> Txt(<<"A", "\n", "B", "\n", "\n", "C">>))
    [] OTHER ->
         ("Model ID" :> Str("seedream-4"))

\* the managed fields of a record that went through a job before
PriorManaged(key) ==
  IF key[1] = AIRTABLE_TABLE_RECREATOR
    THEN ("Status" :> Str("error")) @@ ("Error Message" :> Str("old error"))
           @@ ("Output Images" :> Arr(<<Image("https://out/old")>>))
           @@ ("Wavespeed Job ID" :> Str("job0")) @@ ("Batch ID" :> Str("batch0"))
    ELSE ("Status" :> Str("done")) @@ ("Error Message" :> Str(""))
           @@ ("Output Images" :> Arr(<<Image("https://out/old")>>))
           @@ ("Wavespeed Job ID" :> Str("job0")) @@ ("Batch ID" :> Str("batch0"))

\* the records no job ran for yet
FreshRecords == {<<AIRTABLE_TABLE_RECREATOR, "rec2">>, <<AIRTABLE_TABLE_POSES, "rec1">>}
\* the store as the relay finds it
InitialStore ==
  [key \in Records |->
     IF key \in FreshRecords THEN UserFields(key)
     ELSE PriorManaged(key) @@ UserFields(key)]

\* a field of a stored record; the store omits a field that was never set
Field(st, key, name) ==
  IF key \in DOMAIN st /\ name \in DOMAIN st[key] THEN st[key][name] ELSE Undefined

(***************************************************************************)
(* The payload builders.                                                   *)
(***************************************************************************)
\* mutant: the attachment added last, for the first
FirstUrlOfLast(a) ==
  IF a.t # "array" THEN Bool(FALSE)
  ELSE IF a.v = <<>> THEN Undefined
  ELSE OptGet(a.v[Len(a.v)], "url")

\* Array.isArray(a) && a[0]?.url
FirstUrl(a) ==
  IF a.t # "array" THEN Bool(FALSE)
  ELSE IF a.v = <<>> THEN Undefined
  ELSE OptGet(a.v[1], "url")

\* typeof x === "number" ? x : d
NumberOr(x, d) == IF x.t = "number" THEN x ELSE d

WhiteSpace == {" ", "\t", "\n", "\r"}

RECURSIVE Split(_, _)
\* cs.split(sep): the pieces of cs between the occurrences of sep
Split(cs, sep) ==
  IF \A i \in 1..Len(cs) : cs[i] # sep THEN <<cs>>
  ELSE LET i == CHOOSE j \in 1..Len(cs) :
                  cs[j] = sep /\ \A k \in 1..(j - 1) : cs[k] # sep
       IN <<SubSeq(cs, 1, i - 1)>> \o Split(SubSeq(cs, i + 1, Len(cs)), sep)

RECURSIVE TrimStart(_)
\* mutant: trimStart for trim
TrimStart(cs) ==
  IF cs = <<>> THEN cs
  ELSE IF cs[1] \in WhiteSpace THEN TrimStart(Tail(cs))
  ELSE cs

RECURSIVE Trim(_)
\* s.trim()
Trim(cs) ==
  IF cs = <<>> THEN cs
  ELSE IF cs[1] \in WhiteSpace THEN Trim(Tail(cs))
  ELSE IF cs[Len(cs)] \in WhiteSpace THEN Trim(SubSeq(cs, 1, Len(cs) - 1))
  ELSE cs

\* (text || "").split("\n").map((s) => s.trim()).filter(Boolean)
PoseLines(text) ==
  LET cs == IF Truthy(text) THEN text.cs ELSE <<>>
      lines == Split(cs, "\n")
      trimmed == [i \in 1..Len(lines) |-> Trim(lines[i])]
  IN [i \in 1..Len(SelectSeq(trimmed, LAMBDA l : l # <<>>)) |->
        Txt(SelectSeq(trimmed, LAMBDA l : l # <<>>)[i])]

WebhookUrl == Str(PUBLIC_BASE_URL \o RouteCallback)

\* mutant: the table of the other builder, left in by copy and paste
MetadataFixedTable(recordId, tableName, mode) ==
  Obj([ airtable_record_id |-> recordId, table |-> Str(AIRTABLE_TABLE_RECREATOR),
        mode |-> Str(mode) ])

\* the metadata the provider echoes in its callback, lines 110-114 and 144-148
Metadata(recordId, tableName, mode) ==
  Obj([airtable_record_id |-> recordId, table |-> Str(tableName), mode |-> Str(mode)])

buildRecreatorPayload(recordId, f) ==
  LET refUrl == Get(f, "Reference Image URL")
      refAtt == Get(f, "Reference Image")
      reference_image_url == Or(Or(refUrl, FirstUrl(refAtt)), Undefined)
  IN Obj([ model |-> Get(f, "Model ID"),
           prompt |-> Or(Get(f, "Prompt"), Str("")),
           negative_prompt |-> Or(Get(f, "Negative Prompt"), Str("")),
           cfg_scale |-> NumberOr(Get(f, "CFG"), Whole(DefaultCfgScale)),
           steps |-> NumberOr(Get(f, "Steps"), Whole(DefaultSteps)),
           sampler |-> Or(Get(f, "Sampler"), Str(DefaultSampler)),
           face_lock |-> Bool(Truthy(Get(f, "Face Lock"))),
           reference_strength |->
             NumberOr(Get(f, "Reference Strength"), DefaultReferenceStrength),
           pose_control |-> Bool(Truthy(Get(f, "Pose Control"))),
           lighting_control |-> Bool(Truthy(Get(f, "Lighting Control"))),
           mode |-> Str("recreate"),
           reference_image_url |-> reference_image_url,
           webhook_url |-> WebhookUrl,
           metadata |-> Metadata(recordId, AIRTABLE_TABLE_RECREATOR, "recreate") ])

buildPosesPayload(recordId, f) ==
  LET srcAtt == Get(f, "Source Image")
      source_image_url ==
        IF Truthy(FirstUrl(srcAtt)) THEN FirstUrl(srcAtt) ELSE Undefined
      poseLines == PoseLines(Get(f, "Poses"))
      payload ==
         [ model |-> Get(f, "Model ID"),
           prompt |-> Or(Get(f, "Prompt"), Str("")),
           negative_prompt |-> Or(Get(f, "Negative Prompt"), Str("")),
           cfg_scale |-> NumberOr(Get(f, "CFG"), Whole(DefaultCfgScale)),
           steps |-> NumberOr(Get(f, "Steps"), Whole(DefaultSteps)),
           sampler |-> Or(Get(f, "Sampler"), Str(DefaultSampler)),
           face_lock |-> Bool(Truthy(Get(f, "Face Lock"))),
           reference_strength |->
             NumberOr(Get(f, "Reference Strength"), DefaultReferenceStrength),
           pose_control |-> Bool(Truthy(Get(f, "Pose Control"))),
           lighting_control |-> Bool(Truthy(Get(f, "Lighting Control"))),
           mode |-> Str("pose_variations"),
           webhook_url |-> WebhookUrl,
           metadata |-> Metadata(recordId, AIRTABLE_TABLE_POSES, "pose_variations") ]
      withSource ==
        IF Truthy(source_image_url)
          THEN ("source_image_url" :> source_image_url) @@ payload ELSE payload
      withPoses ==
        IF Len(poseLines) # 0
          THEN ("poses" :> Arr(poseLines)) @@ withSource ELSE withSource
  IN Obj(withPoses)

(***************************************************************************)
(* The state: the store, one handler per request received, the jobs the    *)
(* provider has accepted, the step taken last and, where the clients are   *)
(* observed, the answers given so far.                                     *)
(***************************************************************************)
VARIABLES
  store,   \* the records of the store, by <<table, record id>>
  hs,      \* hs[h]: the handler of the h-th request
  jobs,    \* the payloads Wavespeed has accepted, in order
  last,    \* the step taken last: whose, on which request, its calls, its
           \* response, and the store before it
  seen     \* what the clients have seen: the final step of every request
           \* answered, in the order of the answers (kept when seen.on)

vars == <<store, hs, jobs, last, seen>>

Handlers == 1..MaxRequests

NoResponse == [status |-> 0, body |-> Undefined]
\* a handler before its request arrives
Idle ==
  [ route |-> "none", pc |-> "idle", body |-> Undefined, fields |-> Undefined,
    ws |-> Undefined, calls |-> <<>> ]
\* a handler that has answered: its locals are gone, its response is with the
\* client (last.res)
Answered == [Idle EXCEPT !.pc = "done"]

NoStep ==
  [ h |-> 0, route |-> "none", body |-> Undefined, calls |-> <<>>,
    res |-> NoResponse, before |-> InitialStore ]
Step(h, route, body, calls, res) ==
  [h |-> h, route |-> route, body |-> body, calls |-> calls, res |-> res, before |-> store]

\* a remote call as the handler sees it: no HTTP status and no value while it
\* is awaited
Call(op, tableName, recordId, arg) ==
  [ op |-> op, table |-> tableName, recordId |-> recordId, arg |-> arg,
    http |-> 0, value |-> Undefined ]
\* the awaited (last) call of a log, answered with http: r is what the client
\* returned or threw
Settle(calls, http, r) ==
  [calls EXCEPT ![Len(calls)].http = http,
                ![Len(calls)].value = IF r.ok THEN r.value ELSE Undefined]
Awaited(h) == hs[h].calls[Len(hs[h].calls)]

\* the clients' view: nobody keeps the answers, or nothing answered yet
Unobserved == [on |-> FALSE, steps |-> <<>>]
Observed == [on |-> TRUE, steps |-> <<>>]

\* the store's key of (tableName, recordId) as the URL and body name it
StoreKey(tableName, recordId) ==
  IF tableName.t = "string" /\ recordId.t = "string"
    THEN <<tableName.v, recordId.v>> ELSE <<"", "">>

\* the HTTP status the store may answer a GET of a record with (line 44)
GetStatuses(st, tableName, recordId) ==
  IF StoreKey(tableName, recordId) \in DOMAIN st THEN {200, 503} ELSE {404}

\* the HTTP status the store may answer a PATCH with (line 54): 422 is its
\* answer to a field name the table has no column for
PatchStatuses(st, tableName, recordId) ==
  IF StoreKey(tableName, recordId) \in DOMAIN st THEN {200, 422} ELSE {404}

\* mutant: PUT for PATCH, the record is replaced by the fields sent
PatchedReplaces(st, tableName, recordId, fields, http) ==
  IF http = 200
    THEN [st EXCEPT ![StoreKey(tableName, recordId)] = Json(fields)]
    ELSE st

\* mutant: a field the record already has keeps its value
PatchedKeepsOld(st, tableName, recordId, fields, http) ==
  IF http = 200
    THEN [st EXCEPT ![StoreKey(tableName, recordId)] = @ @@ Json(fields)]
    ELSE st

\* the store after a PATCH it answered with http: the named fields are
\* replaced, the others kept
Patched(st, tableName, recordId, fields, http) ==
  IF http = 200
    THEN [st EXCEPT ![StoreKey(tableName, recordId)] = Json(fields) @@ @]
    ELSE st

HttpText(status) ==
  CASE status = 404 -> "NOT_FOUND"
    [] status = 422 -> "UNKNOWN_FIELD_NAME"
    [] OTHER -> "unavailable"

\* what Wavespeed answers the job of the n-th request with: a job identifier
\* of its own choice and, for the several images of a pose job, a batch
\* identifier
WsAnswers(n, payload) ==
  IF Get(payload, "mode") = Str("pose_variations")
    THEN { Obj([ job_id |-> Str("job" \o ToString(n)),
                 batch_id |-> Str("batch" \o ToString(n)), status |-> Str("queued") ]) }
    ELSE { Obj([job_id |-> Str("job" \o ToString(n)), status |-> Str("queued")]) }
WsStatuses == {200, 500}

(***************************************************************************)
(* The clients: what a call returns or throws, given the HTTP status of    *)
(* the remote side's answer.                                               *)
(***************************************************************************)
Return(value) == [ok |-> TRUE, value |-> value]
Throw(message) == [ok |-> FALSE, message |-> message]

\* mutant: the status of the store's answer to the GET is not looked at
getRecordNoThrow(st, tableName, recordId, http) ==
  Return(Obj([ id |-> recordId,
               fields |-> IF StoreKey(tableName, recordId) \in DOMAIN st
                            THEN Obj(st[StoreKey(tableName, recordId)]) ELSE EmptyObj ]))

getRecord(st, tableName, recordId, http) ==
  IF http # 200
    THEN Throw("Airtable getRecord failed: " \o ToString(http))
    ELSE Return(Obj([id |-> recordId, fields |-> Obj(st[StoreKey(tableName, recordId)])]))

\* mutant: the status of the store's answer is not looked at
updateRecordNoThrow(tableName, recordId, fields, http) ==
  Return(Obj([records |-> Arr(<<Obj([id |-> recordId, fields |-> Obj(Json(fields))])>>)]))

updateRecord(tableName, recordId, fields, http) ==
  IF http # 200
    THEN Throw("Airtable updateRecord failed: " \o ToString(http) \o " " \o HttpText(http))
    ELSE Return(Obj([records |-> Arr(<<Obj([id |-> recordId, fields |-> Obj(Json(fields))])>>)]))

\* mutant: the status of the provider's answer is not looked at
wavespeedCreateJobNoThrow(payload, http, answer) == Return(answer)

wavespeedCreateJob(payload, http, answer) ==
  IF http # 200
    THEN Throw("Wavespeed createJob failed: " \o ToString(http) \o " " \o HttpText(http))
    ELSE Return(answer)

(***************************************************************************)
(* The requests the relay may receive.                                     *)
(***************************************************************************)
\* a JSON body: the keys whose value is undefined are not in it
Body(f) == Obj(Json(f))

\* bodies of POST /generate/recreator and /generate/poses; recX is no record
\* of the store
StartBodies ==
  {Undefined, EmptyObj}
    \cup {Body([recordId |-> v]) : v \in {Str(""), Str("rec1"), Str("recX")}}

\* the metadata a start flow of the table embeds for the record
Embedded(tableName, r) ==
  IF tableName = AIRTABLE_TABLE_RECREATOR
    THEN Get(buildRecreatorPayload(Str(r), EmptyObj), "metadata")
    ELSE Get(buildPosesPayload(Str(r), EmptyObj), "metadata")

EchoedMetadata ==
  { Embedded(AIRTABLE_TABLE_RECREATOR, "rec1"), Embedded(AIRTABLE_TABLE_POSES, "rec2"),
    Embedded(AIRTABLE_TABLE_RECREATOR, "recX") }
MalformedMetadata ==
  { Undefined, Null, EmptyObj,
    Obj([airtable_record_id |-> Str("rec1"), mode |-> Str("recreate")]),
    Obj([table |-> Str(AIRTABLE_TABLE_POSES), mode |-> Str("pose_variations")]),
    Obj([airtable_record_id |-> Str(""), table |-> Str(AIRTABLE_TABLE_RECREATOR)]) }
MetadataInputs == EchoedMetadata \cup MalformedMetadata
\* the record the richer callbacks are addressed to
RichMetadata == {Embedded(AIRTABLE_TABLE_RECREATOR, "rec1")}

StatusInputs ==
  {Undefined, Str("succeeded"), Str("failed"), Str("running"), Str("queued")}
\* the k-th image of a job, as the provider describes it
ImageInput(k) == Obj([url |-> Str("https://out/" \o ToString(k)), width |-> Whole(512)])
\* the first n images, in either order
ImageLists ==
  UNION { { [i \in 1..n |-> ImageInput(i)], [i \in 1..n |-> ImageInput(n + 1 - i)] } :
            n \in 0..MaxImages }
ImagesInputs == {Null} \cup {Arr(l) : l \in ImageLists}
ErrorInputs == {Null, Str(""), Str("boom")}

\* bodies of POST /wavespeed/callback: every status with every metadata; the
\* images of a success, the error of a failure and those of other statuses
\* with the metadata of one record
CallbackBodies ==
  {Undefined}
    \cup { Body([status |-> s, metadata |-> m]) :
             s \in StatusInputs, m \in MetadataInputs }
    \cup { Body([status |-> Str("succeeded"), images |-> i, error |-> Str("boom"),
                 metadata |-> m]) : i \in ImagesInputs, m \in RichMetadata }
    \cup { Body([status |-> Str("failed"), error |-> e, metadata |-> m]) :
             e \in ErrorInputs, m \in RichMetadata }
    \cup { Body([status |-> s, images |-> Arr(<<ImageInput(1)>>),
                 error |-> Str("boom"), metadata |-> m]) :
             s \in StatusInputs \ {Str("succeeded"), Str("failed")}, m \in RichMetadata }

(***************************************************************************)
(* Handlers.  A step ends at an await (the call is logged as awaited) or   *)
(* at the response.                                                        *)
(***************************************************************************)
\* mutant: only an absent recordId is refused
MissingRecordIdStrict(recordId) == recordId = Undefined
\* if (!recordId), lines 166 and 199
MissingRecordId(recordId) == ~Truthy(recordId)
\* res.status(400).json(..), lines 167 and 200
BadRequest == [status |-> 400, body |-> Obj([error |-> Str(RecordIdRequired)])]
\* the catch clause of every handler, lines 189-192, 218-221 and 259-262
Caught(message) == [status |-> 500, body |-> Obj([error |-> Str(message)])]
\* res.json({ ok: true, job: ws }), lines 188 and 217
Started(ws) == [status |-> 200, body |-> Obj([ok |-> Bool(TRUE), job |-> ws])]
\* res.json({ ok: true }), lines 240 and 258
Acknowledged == [status |-> 200, body |-> Obj([ok |-> Bool(TRUE)])]

\* the patch that marks a record as running, lines 173-176 and 204-207
RunningFields == ("Status" :> Str("running")) @@ ("Error Message" :> Str(""))
\* mutant: the status of the provider's answer is saved with the identifiers
JobIdFieldsWithStatus(ws) ==
  ("Wavespeed Job ID" :> Or(Get(ws, "job_id"), Str("")))
    @@ ("Batch ID" :> Or(Get(ws, "batch_id"), Str("")))
    @@ ("Status" :> Or(Get(ws, "status"), Str("")))

\* the patch of the job identifiers, lines 183-186 and 212-215
JobIdFields(ws) ==
  ("Wavespeed Job ID" :> Or(Get(ws, "job_id"), Str("")))
    @@ ("Batch ID" :> Or(Get(ws, "batch_id"), Str("")))

\* mutant: a request waits until the handlers before it have answered
ReadyOneAtATime(h) ==
  /\ hs[h].pc = "idle"
  /\ IF h = 1 THEN TRUE ELSE hs[h - 1].pc = "done"

\* requests are numbered in the order they arrive
Ready(h) ==
  /\ hs[h].pc = "idle"
  /\ IF h = 1 THEN TRUE ELSE hs[h - 1].pc # "idle"

\* res.json / res.status(..).json: the handler is over
Finish(h, route, body, calls, response) ==
  /\ hs' = [hs EXCEPT ![h] = Answered]
  /\ last' = Step(h, route, body, calls, response)
  /\ seen' = IF seen.on
               THEN [seen EXCEPT !.steps = Append(@, Step(h, route, body, calls, response))]
               ELSE seen

\* the handler awaits the last call of next.calls
Await(h, next) ==
  /\ hs' = [hs EXCEPT ![h] = next]
  /\ last' = Step(h, next.route, next.body, next.calls, NoResponse)
  /\ UNCHANGED seen

TypeErrorNoBody ==
  "Cannot destructure property 'recordId' of 'req.body' as it is undefined."
TypeErrorMap == "Cannot read properties of null (reading 'map')"

\* lines 164-170 and 197-202: validate, then await getRecord
StartReceive(h, body, route, tableName) ==
  /\ Ready(h)
  /\ LET recordId == Get(body, "recordId")
     IN IF body.t # "object"
          THEN Finish(h, route, body, <<>>, Caught(TypeErrorNoBody))
        ELSE IF MissingRecordId(recordId)
          THEN Finish(h, route, body, <<>>, BadRequest)
        ELSE Await(h, [Idle EXCEPT !.route = route, !.pc = "getRecord", !.body = body,
                         !.calls = <<Call("getRecord", Str(tableName), recordId, Undefined)>>])
  /\ UNCHANGED <<store, jobs>>

\* lines 170-176 and 202-207: the record is in, await the running patch
StartFetched(h, route, tableName) ==
  /\ hs[h].route = route /\ hs[h].pc = "getRecord"
  /\ LET recordId == Get(hs[h].body, "recordId")
     IN \E http \in GetStatuses(store, Str(tableName), recordId) :
          LET r == getRecord(store, Str(tableName), recordId, http)
          IN IF ~r.ok
               THEN Finish(h, route, hs[h].body, Settle(hs[h].calls, http, r),
                           Caught(r.message))
               ELSE Await(h, [hs[h] EXCEPT
                         !.pc = "markRunning", !.fields = Get(r.value, "fields"),
                         !.calls = Append(Settle(@, http, r),
                            Call("updateRecord", Str(tableName), recordId, RunningFields))])
  /\ UNCHANGED <<store, jobs>>

\* lines 173-180 and 204-210: the running patch is answered; await the
\* submission of the payload, built from the fields read before the patch
StartMarked(h, route, tableName, payload) ==
  /\ hs[h].route = route /\ hs[h].pc = "markRunning"
  /\ LET recordId == Get(hs[h].body, "recordId")
     IN \E http \in PatchStatuses(store, Str(tableName), recordId) :
          LET r == updateRecord(Str(tableName), recordId, RunningFields, http)
          IN /\ store' = Patched(store, Str(tableName), recordId, RunningFields, http)
             /\ IF ~r.ok
                  THEN Finish(h, route, hs[h].body, Settle(hs[h].calls, http, r),
                              Caught(r.message))
                  ELSE Await(h, [hs[h] EXCEPT
                         !.pc = "createJob",
                         !.calls = Append(Settle(@, http, r),
                            Call("wavespeedCreateJob", Undefined, Undefined, payload))])
  /\ UNCHANGED jobs

\* lines 180-186 and 210-215: the submission is answered; await the patch
\* of the job identifiers
StartSubmitted(h, route, tableName) ==
  /\ hs[h].route = route /\ hs[h].pc = "createJob"
  /\ LET recordId == Get(hs[h].body, "recordId")
         payload == Awaited(h).arg
     IN \E http \in WsStatuses : \E answer \in WsAnswers(h, payload) :
          LET r == wavespeedCreateJob(payload, http, answer)
          IN /\ jobs' = IF http = 200 THEN Append(jobs, Body(payload.v)) ELSE jobs
             /\ IF ~r.ok
                  THEN Finish(h, route, hs[h].body, Settle(hs[h].calls, http, r),
                              Caught(r.message))
                  ELSE Await(h, [hs[h] EXCEPT
                         !.pc = "saveJobIds", !.ws = r.value,
                         !.calls = Append(Settle(@, http, r),
                            Call("updateRecord", Str(tableName), recordId,
                                 JobIdFields(r.value)))])
  /\ UNCHANGED store

\* lines 183-192 and 212-221: the patch of the job identifiers is answered
StartSaved(h, route, tableName) ==
  /\ hs[h].route = route /\ hs[h].pc = "saveJobIds"
  /\ LET recordId == Get(hs[h].body, "recordId")
         ws == hs[h].ws
     IN \E http \in PatchStatuses(store, Str(tableName), recordId) :
          LET r == updateRecord(Str(tableName), recordId, JobIdFields(ws), http)
          IN /\ store' = Patched(store, Str(tableName), recordId, JobIdFields(ws), http)
             /\ IF ~r.ok
                  THEN Finish(h, route, hs[h].body, Settle(hs[h].calls, http, r),
                              Caught(r.message))
                  ELSE Finish(h, route, hs[h].body, Settle(hs[h].calls, http, r),
                              Started(ws))
  /\ UNCHANGED jobs

\* A) POST /generate/recreator
RecreatorReceive(h, body) ==
  StartReceive(h, body, RouteRecreator, AIRTABLE_TABLE_RECREATOR)
RecreatorFetched(h) == StartFetched(h, RouteRecreator, AIRTABLE_TABLE_RECREATOR)
RecreatorMarked(h) ==
  StartMarked(h, RouteRecreator, AIRTABLE_TABLE_RECREATOR,
              buildRecreatorPayload(Get(hs[h].body, "recordId"), hs[h].fields))
RecreatorSubmitted(h) == StartSubmitted(h, RouteRecreator, AIRTABLE_TABLE_RECREATOR)
RecreatorSaved(h) == StartSaved(h, RouteRecreator, AIRTABLE_TABLE_RECREATOR)

\* B) POST /generate/poses
PosesReceive(h, body) == StartReceive(h, body, RoutePoses, AIRTABLE_TABLE_POSES)
PosesFetched(h) == StartFetched(h, RoutePoses, AIRTABLE_TABLE_POSES)
PosesMarked(h) ==
  StartMarked(h, RoutePoses, AIRTABLE_TABLE_POSES,
              buildPosesPayload(Get(hs[h].body, "recordId"), hs[h].fields))
PosesSubmitted(h) == StartSubmitted(h, RoutePoses, AIRTABLE_TABLE_POSES)
PosesSaved(h) == StartSaved(h, RoutePoses, AIRTABLE_TABLE_POSES)

\* C) POST /wavespeed/callback
\* mutant: && for ||
MetadataMissingBoth(recordId, table) == ~Truthy(recordId) /\ ~Truthy(table)
\* if (!recordId || !table), line 238
MetadataMissing(recordId, table) == ~Truthy(recordId) \/ ~Truthy(table)
\* status === "succeeded", line 243
IsSucceeded(status) == status = Str("succeeded")
\* mutant: a plain else for the else if
IsNotSucceeded(status) == status # Str("succeeded")
\* mutant: the word of the Status column for the provider's word
IsFailedOnError(status) == status = Str("error")

\* status === "failed", line 251
IsFailed(status) == status = Str("failed")

\* mutant: the error field is not cleared
DoneFieldsKeepsError(images) ==
  LET atts == [i \in 1..Len(images.v) |-> Obj([url |-> Get(images.v[i], "url")])]
  IN ("Status" :> Str("done")) @@ ("Output Images" :> Arr(atts))

\* mutant: the Status of the patch above it, left in by copy and paste
DoneFieldsRunning(images) ==
  LET atts == [i \in 1..Len(images.v) |-> Obj([url |-> Get(images.v[i], "url")])]
  IN ("Status" :> Str("running")) @@ ("Output Images" :> Arr(atts))
       @@ ("Error Message" :> Str(""))

\* lines 245-250: the patch of a success
DoneFields(images) ==
  LET atts == [i \in 1..Len(images.v) |-> Obj([url |-> Get(images.v[i], "url")])]
  IN ("Status" :> Str("done")) @@ ("Output Images" :> Arr(atts))
       @@ ("Error Message" :> Str(""))

\* mutant: no fallback text
ErrorFieldsNoFallback(error) ==
  ("Status" :> Str("error")) @@ ("Error Message" :> error)

\* mutant: the provider's word for the outcome is written as the Status
ErrorFieldsProviderWord(error) ==
  ("Status" :> Str("failed"))
    @@ ("Error Message" :> Or(error, Str(UnknownWavespeedError)))

\* lines 252-255: the patch of a failure
ErrorFields(error) ==
  ("Status" :> Str("error"))
    @@ ("Error Message" :> Or(error, Str(UnknownWavespeedError)))

\* lines 226-258 up to the await: parse, route by metadata and status
CallbackReceive(h, body) ==
  /\ Ready(h)
  /\ LET b == Or(body, EmptyObj)
         status == Get(b, "status")
         images == IF Get(b, "images") = Undefined THEN Arr(<<>>) ELSE Get(b, "images")
         error == Get(b, "error")
         metadata == Get(b, "metadata")
         recordId == OptGet(metadata, "airtable_record_id")
         table == OptGet(metadata, "table")
         patch(fields) ==
           Await(h, [Idle EXCEPT !.route = RouteCallback, !.pc = "patch", !.body = body,
                       !.calls = <<Call("updateRecord", table, recordId, fields)>>])
     IN IF MetadataMissing(recordId, table)
          THEN Finish(h, RouteCallback, body, <<>>, Acknowledged)
        ELSE IF IsSucceeded(status)
          THEN IF images.t # "array"
                 THEN Finish(h, RouteCallback, body, <<>>, Caught(TypeErrorMap))
                 ELSE patch(DoneFields(images))
        ELSE IF IsFailed(status)
          THEN patch(ErrorFields(error))
        ELSE Finish(h, RouteCallback, body, <<>>, Acknowledged)
  /\ UNCHANGED <<store, jobs>>

\* lines 246-262 after the await: the patch is answered
CallbackPatched(h) ==
  /\ hs[h].route = RouteCallback /\ hs[h].pc = "patch"
  /\ LET c == Awaited(h)
     IN \E http \in PatchStatuses(store, c.table, c.recordId) :
          LET r == updateRecord(c.table, c.recordId, c.arg, http)
          IN /\ store' = Patched(store, c.table, c.recordId, c.arg, http)
             /\ IF ~r.ok
                  THEN Finish(h, RouteCallback, hs[h].body, Settle(hs[h].calls, http, r),
                              Caught(r.message))
                  ELSE Finish(h, RouteCallback, hs[h].body, Settle(hs[h].calls, http, r),
                              Acknowledged)
  /\ UNCHANGED jobs

(***************************************************************************)
(* The specification: any requests, in any interleaving of their steps.    *)
(***************************************************************************)
Init ==
  /\ store = InitialStore
  /\ hs = [h \in Handlers |-> Idle]
  /\ jobs = <<>>
  /\ last = NoStep
  /\ seen = Unobserved

Next ==
  \E h \in Handlers :
    \/ \E body \in StartBodies : RecreatorReceive(h, body)
    \/ RecreatorFetched(h)
    \/ RecreatorMarked(h)
    \/ RecreatorSubmitted(h)
    \/ RecreatorSaved(h)
    \/ \E body \in StartBodies : PosesReceive(h, body)
    \/ PosesFetched(h)
    \/ PosesMarked(h)
    \/ PosesSubmitted(h)
    \/ PosesSaved(h)
    \/ \E body \in CallbackBodies : CallbackReceive(h, body)
    \/ CallbackPatched(h)

Spec == Init /\ [][Next]_vars

(***************************************************************************)
(* The payload mapper on its own: one start request for a record whose     *)
(* fields are drawn from the inputs below.                                 *)
(***************************************************************************)
\* the longest Poses text, in characters
MaxPoseLen == 3

PoseChars == {"A", "B", " ", "\n"}
\* the Poses field: absent, every text up to MaxPoseLen and the text of the
\* scenario of the specification
ScenarioPoses == Txt(<<"A", "\n", "B", "\n", "\n", "C">>)
PoseTexts ==
  {Undefined, ScenarioPoses}
    \cup {Txt(cs) : cs \in UNION {[1..n -> PoseChars] : n \in 0..MaxPoseLen}}

\* a URL field: absent, empty or set
UrlInputs == {Undefined, Str(""), Str("https://img/ref1")}
\* an attachment field: absent, no attachment, one, two, one without a url,
\* and a value that is no list
AttachmentInputs ==
  { Undefined, Arr(<<>>), Arr(<<Image("https://img/att1")>>),
    Arr(<<Image("https://img/att1"), Image("https://img/att2")>>),
    Arr(<<Obj([id |-> Str("att3")])>>), Str("https://img/att1") }

\* the fields of a record of the recreator table
RecreatorFieldSets ==
  { Json(("Model ID" :> Str("seedream-4")) @@ ("Reference Image URL" :> u)
           @@ ("Reference Image" :> a)) :
      u \in UrlInputs, a \in AttachmentInputs }
\* the fields of a record of the poses table
PosesFieldSets ==
  { Json(("Model ID" :> Str("seedream-4")) @@ ("Poses" :> t)) : t \in PoseTexts }
    \cup { Json(("Model ID" :> Str("seedream-4")) @@ ("Reference Image URL" :> u)
                  @@ ("Source Image" :> a)) :
             u \in {Undefined, Str("https://img/ref1")}, a \in AttachmentInputs }

MapperRecord == "rec1"
\* a single request: the mapper is applied once
MapperHandlers == {1}
MapperInit ==
  /\ \/ \E f \in RecreatorFieldSets :
          store = [InitialStore EXCEPT ![<<AIRTABLE_TABLE_RECREATOR, MapperRecord>>] = f]
     \/ \E f \in PosesFieldSets :
          store = [InitialStore EXCEPT ![<<AIRTABLE_TABLE_POSES, MapperRecord>>] = f]
  /\ hs = [h \in MapperHandlers |-> Idle]
  /\ jobs = <<>>
  /\ last = NoStep
  /\ seen = Unobserved

MapperNext ==
  \E h \in MapperHandlers :
    \/ RecreatorReceive(h, Body([recordId |-> Str(MapperRecord)]))
    \/ RecreatorFetched(h)
    \/ RecreatorMarked(h)
    \/ RecreatorSubmitted(h)
    \/ RecreatorSaved(h)
    \/ PosesReceive(h, Body([recordId |-> Str(MapperRecord)]))
    \/ PosesFetched(h)
    \/ PosesMarked(h)
    \/ PosesSubmitted(h)
    \/ PosesSaved(h)

MapperSpec == MapperInit /\ [][MapperNext]_vars

(***************************************************************************)
(* Callbacks racing each other: terminal callbacks only, for two records,  *)
(* with the answers observed.                                              *)
(***************************************************************************)
\* the number of callbacks the relay receives in one behaviour
MaxCallbacks == 3

RaceHandlers == 1..MaxCallbacks
\* terminal callbacks as the provider sends them
TerminalBodies ==
  { Body([status |-> Str("succeeded"), images |-> Arr(<<ImageInput(1)>>), metadata |-> m]) :
      m \in {Embedded(AIRTABLE_TABLE_RECREATOR, "rec1"), Embedded(AIRTABLE_TABLE_POSES, "rec2")} }
    \cup { Body([status |-> Str("failed"), error |-> e, metadata |-> m]) :
             e \in {Undefined, Str("boom")},
             m \in {Embedded(AIRTABLE_TABLE_RECREATOR, "rec1")} }

RaceInit ==
  /\ store = InitialStore
  /\ hs = [h \in RaceHandlers |-> Idle]
  /\ jobs = <<>>
  /\ last = NoStep
  /\ seen = Observed

RaceNext ==
  \E h \in RaceHandlers :
    \/ \E body \in TerminalBodies : CallbackReceive(h, body)
    \/ CallbackPatched(h)

RaceSpec == RaceInit /\ [][RaceNext]_vars

(***************************************************************************)
(* The relay with the provider it trusts: every remote call succeeds and   *)
(* Wavespeed calls back once for every job it accepted, with a terminal    *)
(* status and the metadata of the job.  The answers are observed.          *)
(***************************************************************************)
\* the number of start requests the relay receives in one behaviour
MaxJobs == 2

\* a start request and a callback per job
ProviderHandlers == 1..(2 * MaxJobs)
\* the start requests: all for one record of the recreator table, which no job
\* ran for yet
ProviderStartBody == Body([recordId |-> Str("rec2")])

\* every request received so far: those being handled and those answered
Requests ==
  {[h |-> h, route |-> hs[h].route, body |-> hs[h].body, calls |-> hs[h].calls] :
     h \in {g \in DOMAIN hs : hs[g].pc \notin {"idle", "done"}}}
    \cup {[h |-> seen.steps[i].h, route |-> seen.steps[i].route,
           body |-> seen.steps[i].body, calls |-> seen.steps[i].calls] :
            i \in 1..Len(seen.steps)}
\* the jobs Wavespeed accepted: the identifier it answered with, the metadata
\* of the payload and the request that submitted it
AcceptedJobs ==
  {[ id |-> Get(r.calls[3].value, "job_id"), metadata |-> Get(r.calls[3].arg, "metadata"),
     h |-> r.h ] :
     r \in {q \in Requests : q.route \in {RouteRecreator, RoutePoses}
                               /\ Len(q.calls) >= 3 /\ q.calls[3].http = 200}}
\* the jobs Wavespeed has called back for
CalledBack ==
  {Get(r.body, "job_id") : r \in {q \in Requests : q.route = RouteCallback}}
\* the callback of a job: its outcome, its identifier and its metadata, echoed
JobCallbacks(job) ==
  { Body([ status |-> Str("succeeded"), job_id |-> job.id,
           images |-> Arr(<<ImageInput(1)>>), metadata |-> job.metadata ]),
    Body([ status |-> Str("failed"), job_id |-> job.id, error |-> Str("boom"),
           metadata |-> job.metadata ]) }
\* the remote side answered every call of the step taken with success
AllOk == \A i \in 1..Len(last.calls) : last.calls[i].http \in {0, 200}
\* another start request may arrive
MoreStarts ==
  Cardinality({r \in Requests : r.route \in {RouteRecreator, RoutePoses}}) < MaxJobs

ProviderInit ==
  /\ store = InitialStore
  /\ hs = [h \in ProviderHandlers |-> Idle]
  /\ jobs = <<>>
  /\ last = NoStep
  /\ seen = Observed

ProviderNext ==
  \E h \in ProviderHandlers :
    \/ MoreStarts /\ RecreatorReceive(h, ProviderStartBody)
    \/ RecreatorFetched(h) /\ AllOk'
    \/ RecreatorMarked(h) /\ AllOk'
    \/ RecreatorSubmitted(h) /\ AllOk'
    \/ RecreatorSaved(h) /\ AllOk'
    \/ \E job \in AcceptedJobs :
         /\ job.id \notin CalledBack
         /\ \E body \in JobCallbacks(job) : CallbackReceive(h, body)
    \/ CallbackPatched(h) /\ AllOk'

ProviderSpec == ProviderInit /\ [][ProviderNext]_vars

(***************************************************************************)
(* Vocabulary of the properties.  last describes the step just taken.      *)
(***************************************************************************)
StartRoutes == {RouteRecreator, RoutePoses}
TableOf(route) ==
  IF route = RouteRecreator THEN AIRTABLE_TABLE_RECREATOR ELSE AIRTABLE_TABLE_POSES
ModeOf(tableName) ==
  IF tableName = AIRTABLE_TABLE_RECREATOR THEN "recreate" ELSE "pose_variations"

\* the last call of the step, and whether the remote side refused it
LastCall == last.calls[Len(last.calls)]
LastCallFailed == last.calls # <<>> /\ LastCall.http \notin {0, 200}
LastCallApplied == last.calls # <<>> /\ LastCall.http = 200
\* every flow there is, with the log of its calls: those of the running
\* handlers and that of the last step
Flows ==
  {[route |-> hs[h].route, body |-> hs[h].body, calls |-> hs[h].calls] : h \in DOMAIN hs}
    \cup {[route |-> last.route, body |-> last.body, calls |-> last.calls]}
Logs == {flow.calls : flow \in Flows}

\* the step is one of the callback handler, with these parts of its body
IsCallback == last.route = RouteCallback
CbStatus == Get(last.body, "status")
CbMetadata == Get(last.body, "metadata")
CbRecordId == Get(CbMetadata, "airtable_record_id")
CbTable == Get(CbMetadata, "table")
\* the metadata carries a record id and a table name
CarriesTarget == CbRecordId # Undefined /\ CbRecordId # Str("") /\ CbTable # Undefined
CbKey == <<CbTable.v, CbRecordId.v>>

\* the step is one of a start handler, on this record
IsStart == last.route \in StartRoutes
StartRecordId == Get(last.body, "recordId")
StartKey == <<TableOf(last.route), StartRecordId.v>>

\* C1: a callback whose metadata names a record and a table is answered
\* 200 {ok:true} also when the store refuses the patch it attempts.
C1_AcknowledgedDespiteStoreFailure ==
  (IsCallback /\ CarriesTarget /\ LastCallFailed) => last.res = Acknowledged

\* C2: in a start flow whose job was accepted, a refused patch of the job
\* identifiers (step 6) still ends in 200 {ok:true, job: <provider response>}.
C2_JobIdPatchIsBestEffort ==
  (IsStart /\ Len(last.calls) = 4 /\ LastCallFailed)
    => last.res = Started(last.calls[3].value)

\* C3: a start request whose body has no recordId, or a falsy one, is answered
\* 400 {error:"recordId required"}; its handler makes no remote call and the
\* store is as before.
C3_MissingRecordIdIs400 ==
  (IsStart /\ last.body.t = "object" /\ ~Truthy(StartRecordId))
    => /\ last.res = [status |-> 400, body |-> Obj([error |-> Str("recordId required")])]
       /\ last.calls = <<>>
       /\ hs[last.h].pc = "done"
       /\ store = last.before
C3_Witness ==
  /\ IsStart /\ StartRecordId = Str("") /\ last.res.status = 400
  /\ \E h \in Handlers : hs[h].pc \notin {"idle", "done"}

\* C4: a start flow issues the job submission only after its own patch
\* {Status: running, Error Message: ""} of the target record was answered
\* with success, and the record holds these values when the call is issued.
C4_RunningBeforeSubmission ==
  /\ \A calls \in Logs : \A i \in 1..Len(calls) :
       calls[i].op = "wavespeedCreateJob"
         => \E j \in 1..(i - 1) :
              /\ calls[j].op = "updateRecord" /\ calls[j].http = 200
              /\ calls[j].arg =
                   ("Status" :> Str("running")) @@ ("Error Message" :> Str(""))
  /\ (IsStart /\ last.calls # <<>> /\ LastCall.op = "wavespeedCreateJob"
        /\ LastCall.http = 0)
       => /\ last.calls[2].table = Str(StartKey[1])
          /\ last.calls[2].recordId = Str(StartKey[2])
          /\ Field(store, StartKey, "Status") = Str("running")
          /\ Field(store, StartKey, "Error Message") = Str("")
C4_Witness ==
  /\ IsStart /\ Len(last.calls) = 3 /\ LastCall.op = "wavespeedCreateJob"
  /\ Field(last.before, StartKey, "Status") = Str("error")

\* the metadata a start flow is to embed for the record r of the table
EchoOf(tableName, r) ==
  Obj([ airtable_record_id |-> Str(r), table |-> Str(tableName),
        mode |-> Str(ModeOf(tableName)) ])
\* the record ids requests may name: those of the store and one of no record
KnownIds == RecordIds \cup {"recX"}

\* C5: the metadata a start flow embeds in its payload names the table of its
\* endpoint and the recordId of its request; a callback that carries the
\* metadata embedded for (T, r) addresses its calls to (T, r) and changes no
\* other record of any table.
C5_CallbackRoutesToItsRecord ==
  /\ \A flow \in Flows : \A i \in 1..Len(flow.calls) :
       flow.calls[i].op = "wavespeedCreateJob"
         => Get(flow.calls[i].arg, "metadata")
              = EchoOf(TableOf(flow.route), Get(flow.body, "recordId").v)
  /\ \A tableName \in Tables : \A r \in KnownIds :
       (IsCallback /\ CbMetadata = EchoOf(tableName, r))
         => /\ \A i \in 1..Len(last.calls) :
                 /\ last.calls[i].table = Str(tableName)
                 /\ last.calls[i].recordId = Str(r)
            /\ \A key \in Records \ {<<tableName, r>>} : store[key] = last.before[key]
C5_Witness ==
  /\ IsCallback /\ CbMetadata = EchoOf(AIRTABLE_TABLE_POSES, "rec2") /\ LastCallApplied
  /\ store[<<AIRTABLE_TABLE_POSES, "rec2">>] # last.before[<<AIRTABLE_TABLE_POSES, "rec2">>]
  /\ \E i \in 1..Len(jobs) :
       Get(jobs[i], "metadata") = EchoOf(AIRTABLE_TABLE_POSES, "rec1")

\* the attachments of the images of the callback: one {url} per image, in order
CbAttachments ==
  LET images == Get(last.body, "images")
  IN IF images = Undefined THEN <<>>
     ELSE [i \in 1..Len(images.v) |-> Obj([url |-> images.v[i].v.url])]

\* C6: after the patch of a "succeeded" callback was applied, the target
\* record has Status done, Output Images one {url} per image of the callback
\* in order (none when images is absent) and Error Message "", whatever it
\* held before.
C6_SuccessCallbackMarksDone ==
  (IsCallback /\ CarriesTarget /\ CbStatus = Str("succeeded") /\ LastCallApplied)
    => /\ Field(store, CbKey, "Status") = Str("done")
       /\ Field(store, CbKey, "Output Images") = Arr(CbAttachments)
       /\ Field(store, CbKey, "Error Message") = Str("")
C6_Witness ==
  /\ IsCallback /\ CbStatus = Str("succeeded") /\ LastCallApplied
  /\ Len(CbAttachments) = 2 /\ CbAttachments[1] # CbAttachments[2]
  /\ Field(last.before, CbKey, "Error Message") = Str("old error")
  /\ Field(last.before, CbKey, "Status") = Str("error")
  /\ Field(store, CbKey, "Error Message") = Str("")

\* the text a failure callback is to leave in Error Message
CbErrorText ==
  IF Get(last.body, "error") \in {Undefined, Null, Str("")}
    THEN Str("Unknown Wavespeed error") ELSE Get(last.body, "error")

\* C7: a "failed" callback patches its target with Status error and Error
\* Message the error text of the callback, or "Unknown Wavespeed error" when
\* the callback has none or an empty one; once the patch is applied the record
\* holds them, and its Error Message is neither empty nor undefined.
C7_FailureCallbackMarksError ==
  (IsCallback /\ CarriesTarget /\ CbStatus = Str("failed"))
    => /\ Len(last.calls) = 1
       /\ LastCall.op = "updateRecord"
       /\ LastCall.arg = ("Status" :> Str("error")) @@ ("Error Message" :> CbErrorText)
       /\ LastCallApplied
            => /\ Field(store, CbKey, "Status") = Str("error")
               /\ Field(store, CbKey, "Error Message") = CbErrorText
               /\ Field(store, CbKey, "Error Message") \notin {Undefined, Null, Str("")}
C7_Witness ==
  /\ IsCallback /\ CarriesTarget /\ CbStatus = Str("failed") /\ LastCallApplied
  /\ Get(last.body, "error") = Undefined
  /\ Field(last.before, CbKey, "Error Message") = Str("")
  /\ Field(store, CbKey, "Error Message") = Str("Unknown Wavespeed error")

\* C8: a callback with valid metadata and a status other than "succeeded" and
\* "failed" makes no store call, leaves every record as it was and is answered
\* 200 {ok:true}.
C8_OtherStatusIsNoOp ==
  (IsCallback /\ CarriesTarget /\ CbStatus \notin {Str("succeeded"), Str("failed")})
    => /\ last.calls = <<>>
       /\ hs[last.h].pc = "done"
       /\ store = last.before
       /\ last.res = [status |-> 200, body |-> Obj([ok |-> Bool(TRUE)])]
C8_Witness ==
  /\ IsCallback /\ CarriesTarget /\ CbStatus = Str("queued")
  /\ CbKey \in Records /\ last.res.status = 200

\* the callback has no metadata, or metadata without a record id or a table
LacksTarget ==
  \/ last.body.t # "object"
  \/ CbMetadata.t # "object"
  \/ CbRecordId = Undefined
  \/ CbTable = Undefined

\* C9: a callback without metadata, or whose metadata lacks the record id or
\* the table, makes no store call for any status, leaves every record as it
\* was and is answered 200 {ok:true}.
C9_MissingMetadataIsNoOp ==
  (IsCallback /\ LacksTarget)
    => /\ last.calls = <<>>
       /\ hs[last.h].pc = "done"
       /\ store = last.before
       /\ last.res = [status |-> 200, body |-> Obj([ok |-> Bool(TRUE)])]
C9_Witness ==
  /\ IsCallback /\ CbStatus = Str("succeeded")
  /\ CbMetadata.t = "object" /\ CbRecordId = Undefined /\ CbTable # Undefined
  /\ last.res.status = 200

\* the message of the error a refused call throws
FailureMessage(call) ==
  IF call.op = "wavespeedCreateJob"
    THEN "Wavespeed createJob failed: 500 unavailable"
    ELSE "Airtable updateRecord failed: 422 UNKNOWN_FIELD_NAME"

StatusOf(st, key) == Field(st, key, "Status")
\* the call the step handled the answer of: the last one of the log that is
\* not awaited (0 when the step handled none)
AnsweredIndex ==
  IF last.calls = <<>> THEN 0
  ELSE IF LastCall.http # 0 THEN Len(last.calls) ELSE Len(last.calls) - 1
AnsweredCall == last.calls[AnsweredIndex]
\* the step is the store's application of a patch to the record key
PatchApplied(key) ==
  /\ AnsweredIndex > 0
  /\ AnsweredCall.op = "updateRecord" /\ AnsweredCall.http = 200
  /\ key = StoreKey(AnsweredCall.table, AnsweredCall.recordId)

\* C11 as stated: Status changes only along the edges of the state machine:
\* to running by a start flow, running -> done by a success callback and
\* running -> error by a failure callback.
C11_OnlyStateMachineEdges ==
  \A key \in Records :
    LET b == StatusOf(last.before, key)
        a == StatusOf(store, key)
    IN b # a
         => \/ IsStart /\ a = Str("running")
            \/ IsCallback /\ CbStatus = Str("succeeded")
                 /\ b = Str("running") /\ a = Str("done")
            \/ IsCallback /\ CbStatus = Str("failed")
                 /\ b = Str("running") /\ a = Str("error")

\* C11 as amended: the Status of a record changes only by an applied patch
\* that names the record: to running by the running patch of a start flow, to
\* done by the patch of a success callback and to error by the patch of a
\* failure callback, from whatever Status the record has.
C11_StatusFollowsAppliedPatch ==
  \A key \in Records :
    LET b == StatusOf(last.before, key)
        a == StatusOf(store, key)
    IN b # a
         => /\ PatchApplied(key)
            /\ \/ IsStart /\ AnsweredIndex = 2 /\ a = Str("running")
               \/ IsCallback /\ CbStatus = Str("succeeded") /\ a = Str("done")
               \/ IsCallback /\ CbStatus = Str("failed") /\ a = Str("error")
C11_Witness ==
  /\ IsCallback /\ CbStatus = Str("succeeded") /\ LastCallApplied
  /\ StatusOf(last.before, CbKey) = Str("error")
  /\ StatusOf(store, CbKey) = Str("done")
  /\ \A h \in DOMAIN hs : hs[h].route \notin StartRoutes

\* the values of Status: unset, or one of the three the relay writes
StatusValues == {Undefined, Str("running"), Str("done"), Str("error")}

\* C12: in every reachable state the Status of every record is unset, running,
\* done or error, and every patch the relay issues that names Status sets it to
\* running, done or error.
C12_StatusIsOneOfFour ==
  /\ \A key \in DOMAIN store : StatusOf(store, key) \in StatusValues
  /\ \A calls \in Logs : \A i \in 1..Len(calls) :
       (calls[i].op = "updateRecord" /\ "Status" \in DOMAIN calls[i].arg)
         => calls[i].arg["Status"] \in {Str("running"), Str("done"), Str("error")}
C12_Witness ==
  /\ StatusOf(InitialStore, <<AIRTABLE_TABLE_POSES, "rec1">>) = Undefined
  /\ StatusOf(store, <<AIRTABLE_TABLE_POSES, "rec1">>) = Str("running")
  /\ StatusOf(InitialStore, <<AIRTABLE_TABLE_POSES, "rec2">>) = Str("done")
  /\ StatusOf(store, <<AIRTABLE_TABLE_POSES, "rec2">>) = Str("error")

(***************************************************************************)
(* The payloads submitted, against the fields they were built from.        *)
(***************************************************************************)
\* the start flows that have built their payload: the fields they fetched
\* (call 1) and the payload as submitted (the JSON of the argument of call 3)
Submissions ==
  { [ route |-> flow.route, fields |-> Get(flow.calls[1].value, "fields"),
      payload |-> Json(flow.calls[3].arg.v) ] :
      flow \in {fl \in Flows : fl.route \in StartRoutes /\ Len(fl.calls) >= 3} }

\* a field holds a non-empty string
IsSet(x) == x.t = "string" /\ "v" \in DOMAIN x /\ x.v # ""
\* the url of the first attachment of a field, undefined when the field is no
\* list, the list is empty or its first element has no url
FirstAttachmentUrl(f, name) ==
  LET a == Get(f, name)
  IN IF a.t = "array" /\ Len(a.v) >= 1 /\ "url" \in DOMAIN a.v[1].v
       THEN a.v[1].v.url ELSE Undefined
ImageKey(route) ==
  IF route = RouteRecreator THEN "reference_image_url" ELSE "source_image_url"
AttachmentField(route) ==
  IF route = RouteRecreator THEN "Reference Image" ELSE "Source Image"
\* the payload s has the image URL u, or lacks the key when u is undefined
HasImageUrl(s, u) ==
  IF u = Undefined THEN ImageKey(s.route) \notin DOMAIN s.payload
  ELSE ImageKey(s.route) \in DOMAIN s.payload /\ s.payload[ImageKey(s.route)] = u

\* C13 as stated: in both modes the image URL of the payload is the explicit
\* URL field when it is set, otherwise the url of the first attachment of the
\* mode's attachment field, otherwise the key is absent.
C13_ExplicitUrlFirstInBothModes ==
  \A s \in Submissions :
    HasImageUrl(s, IF IsSet(Get(s.fields, "Reference Image URL"))
                     THEN Get(s.fields, "Reference Image URL")
                     ELSE FirstAttachmentUrl(s.fields, AttachmentField(s.route)))

\* C13 as amended: in recreate mode the image URL is Reference Image URL when
\* set, otherwise the url of the first attachment of Reference Image, otherwise
\* absent; in pose mode no URL field is read: it is the url of the first
\* attachment of Source Image, otherwise absent.
C13_ImageUrlPerMode ==
  \A s \in Submissions :
    HasImageUrl(s, IF s.route = RouteRecreator /\ IsSet(Get(s.fields, "Reference Image URL"))
                     THEN Get(s.fields, "Reference Image URL")
                     ELSE FirstAttachmentUrl(s.fields, AttachmentField(s.route)))
C13_Witness ==
  \E s \in Submissions :
    /\ s.route = RouteRecreator
    /\ ~IsSet(Get(s.fields, "Reference Image URL"))
    /\ Get(s.fields, "Reference Image").t = "array"
    /\ Len(Get(s.fields, "Reference Image").v) = 2
    /\ "reference_image_url" \in DOMAIN s.payload
    /\ s.payload["reference_image_url"] = Str("https://img/att1")
    /\ \E i \in 1..Len(jobs) : jobs[i] = Obj(s.payload)

\* the characters of a Poses field, none when the field is absent
PoseText(f) == IF "cs" \in DOMAIN Get(f, "Poses") THEN Get(f, "Poses").cs ELSE <<>>
BlankChars == {" ", "\t", "\r", "\n"}
Least(S) == CHOOSE x \in S : \A y \in S : x <= y
Greatest(S) == CHOOSE x \in S : \A y \in S : x >= y
\* the places that bound the lines of cs: before it, after it, its newlines
Breaks(cs) == {0, Len(cs) + 1} \cup {i \in 1..Len(cs) : cs[i] = "\n"}
\* the places of the non-blank characters of the line that starts after a
Ink(cs, a) ==
  {i \in (a + 1)..(Least({b \in Breaks(cs) : b > a}) - 1) : cs[i] \notin BlankChars}
\* the list the claim describes: of every line with a non-blank character, in
\* the order of the text, the part from its first to its last such character
ExpectedPoses(cs) ==
  LET starts == {a \in Breaks(cs) \ {Len(cs) + 1} : Ink(cs, a) # {}}
      nth(k) == CHOOSE a \in starts : Cardinality({b \in starts : b < a}) = k - 1
  IN [k \in 1..Cardinality(starts) |->
        Txt(SubSeq(cs, Least(Ink(cs, nth(k))), Greatest(Ink(cs, nth(k)))))]

RECURSIVE Widen(_)
\* cs with blanks around every newline and a blank line after it
Widen(cs) ==
  IF cs = <<>> THEN <<>>
  ELSE (IF Head(cs) = "\n" THEN <<" ", "\n", " ", "\n", " ">> ELSE <<Head(cs)>>)
         \o Widen(Tail(cs))
\* texts that differ from cs in surrounding whitespace and blank lines only
Variants(cs) ==
  { <<" ">> \o cs, cs \o <<" ">>, <<"\n">> \o cs, cs \o <<"\n">>,
    <<" ", "\n", "\t">> \o cs \o <<"\r", "\n", " ">>, Widen(cs) }
\* the poses of a submitted payload, none when it has no poses key
PosesOf(s) == IF "poses" \in DOMAIN s.payload THEN s.payload["poses"].v ELSE <<>>

\* C14: the poses of a pose-variation payload are the lines of the Poses text
\* in order, trimmed, without the empty and blank ones; "A\nB\n\nC" gives
\* A, B, C; texts that differ in surrounding whitespace or blank lines give the
\* same list; the key is absent when the list is empty, and a recreate payload
\* never has it.
C14_PosesAreTrimmedNonEmptyLines ==
  \A s \in Submissions :
    IF s.route = RouteRecreator THEN "poses" \notin DOMAIN s.payload
    ELSE /\ PosesOf(s) = ExpectedPoses(PoseText(s.fields))
         /\ ("poses" \in DOMAIN s.payload) = (ExpectedPoses(PoseText(s.fields)) # <<>>)
         /\ Get(s.fields, "Poses") = Txt(<<"A", "\n", "B", "\n", "\n", "C">>)
              => PosesOf(s) = <<Txt(<<"A">>), Txt(<<"B">>), Txt(<<"C">>)>>
         /\ \A v \in Variants(PoseText(s.fields)) : PoseLines(Txt(v)) = PosesOf(s)
C14_Witness ==
  \E s \in Submissions :
    /\ s.route = RoutePoses
    /\ PoseText(s.fields) = <<"A", "\n", "B", "\n", "\n", "C">>
    /\ Len(PosesOf(s)) = 3
    /\ \E i \in 1..Len(jobs) : jobs[i] = Obj(s.payload)

(***************************************************************************)
(* The requests answered so far (seen.steps), in the order of the answers. *)
(***************************************************************************)
\* no request is being handled
Quiet == \A h \in DOMAIN hs : hs[h].pc \in {"idle", "done"}
\* the answered terminal callbacks whose patch names the record key: their
\* places in seen.steps
TerminalCallbacks(key) ==
  { i \in 1..Len(seen.steps) :
      /\ seen.steps[i].route = RouteCallback
      /\ Get(seen.steps[i].body, "status") \in {Str("succeeded"), Str("failed")}
      /\ Len(seen.steps[i].calls) = 1
      /\ StoreKey(seen.steps[i].calls[1].table, seen.steps[i].calls[1].recordId) = key }
\* the patches of all of them were applied
AllApplied(key) == \A i \in TerminalCallbacks(key) : seen.steps[i].calls[1].http = 200
\* of these callbacks, the one received last and the one answered last
ReceivedLast(key) ==
  CHOOSE i \in TerminalCallbacks(key) :
    \A j \in TerminalCallbacks(key) : seen.steps[j].h <= seen.steps[i].h
AppliedLast(key) ==
  CHOOSE i \in TerminalCallbacks(key) : \A j \in TerminalCallbacks(key) : j <= i
\* the record holds the Status and the Error Message of the patch of step i
HoldsPatchOf(key, i) ==
  /\ Field(store, key, "Status") = seen.steps[i].calls[1].arg["Status"]
  /\ Field(store, key, "Error Message") = seen.steps[i].calls[1].arg["Error Message"]

\* C15 as stated: once several terminal callbacks for a record are handled and
\* all their patches were applied, the record has the Status and the Error
\* Message written by the callback received last.
C15_LastReceivedWins ==
  \A key \in Records :
    (Quiet /\ Cardinality(TerminalCallbacks(key)) >= 2 /\ AllApplied(key))
      => HoldsPatchOf(key, ReceivedLast(key))

\* C15 as amended: the record has the Status and the Error Message written by
\* the callback whose patch the store applied last, which is the callback
\* received last when the patches are applied in the order of receipt.
C15_LastAppliedWins ==
  \A key \in Records :
    (Cardinality(TerminalCallbacks(key)) >= 2 /\ AllApplied(key))
      => /\ HoldsPatchOf(key, AppliedLast(key))
         /\ (\A i, j \in TerminalCallbacks(key) :
               i < j => seen.steps[i].h < seen.steps[j].h)
              => HoldsPatchOf(key, ReceivedLast(key))
C15_Witness ==
  LET key == <<AIRTABLE_TABLE_RECREATOR, "rec1">>
  IN /\ Quiet /\ Cardinality(TerminalCallbacks(key)) >= 2 /\ AllApplied(key)
     /\ ReceivedLast(key) # AppliedLast(key)
     /\ Field(store, key, "Status") = Str("done")
     /\ seen.steps[ReceivedLast(key)].calls[1].arg["Status"] = Str("error")

(***************************************************************************)
(* Jobs and their callbacks, where the provider keeps its contract.        *)
(***************************************************************************)
\* the record a job was submitted for
JobKey(job) ==
  StoreKey(Get(job.metadata, "table"), Get(job.metadata, "airtable_record_id"))
\* the jobs whose callback the relay has answered
AnsweredCallbacks ==
  { Get(seen.steps[i].body, "job_id") :
      i \in {j \in 1..Len(seen.steps) : seen.steps[j].route = RouteCallback} }
\* the h-th request can arrive: the requests before it have
CanArrive(h) == hs[h].pc = "idle" /\ (IF h = 1 THEN TRUE ELSE hs[h - 1].pc # "idle")

\* C16: the relay does not serialize handlers on a record: a request is
\* received whatever the other handlers are doing, and a handler that awaits
\* the answer of a call takes its next step whatever the other handlers are
\* doing, so the patches of two handlers on a record are applied in either
\* order.
C16_HandlersAreNotSerialized ==
  \A h \in DOMAIN hs :
    /\ CanArrive(h)
         => /\ ENABLED RecreatorReceive(h, ProviderStartBody)
            /\ \A job \in AcceptedJobs : \A body \in JobCallbacks(job) :
                 ENABLED CallbackReceive(h, body)
    /\ (hs[h].route = RouteRecreator /\ hs[h].pc = "getRecord") => ENABLED RecreatorFetched(h)
    /\ (hs[h].route = RouteRecreator /\ hs[h].pc = "markRunning") => ENABLED RecreatorMarked(h)
    /\ (hs[h].route = RouteRecreator /\ hs[h].pc = "createJob") => ENABLED RecreatorSubmitted(h)
    /\ (hs[h].route = RouteRecreator /\ hs[h].pc = "saveJobIds") => ENABLED RecreatorSaved(h)
    /\ (hs[h].route = RouteCallback /\ hs[h].pc = "patch") => ENABLED CallbackPatched(h)
\* the callback of an earlier job was just applied, while a job a later start
\* request submitted for the same record is still to be called back
C16_Witness ==
  \E old, new \in AcceptedJobs :
    /\ old.h < new.h /\ JobKey(old) = JobKey(new)
    /\ IsCallback /\ LastCallApplied /\ Get(last.body, "job_id") = old.id
    /\ new.id \notin CalledBack
    /\ StatusOf(last.before, JobKey(new)) = Str("running")
    /\ StatusOf(store, JobKey(new)) \in {Str("done"), Str("error")}

\* C18: where every remote call succeeds and every job is called back once
\* with a terminal status, once no request is being handled and every job
\* accepted has had its callback answered, no record is running and every
\* record a job was submitted for is done or error.
C18_EveryJobEndsTerminal ==
  (Quiet /\ \A job \in AcceptedJobs : job.id \in AnsweredCallbacks)
    => \A key \in Records :
         /\ StatusOf(store, key) # Str("running")
         /\ (\E job \in AcceptedJobs : JobKey(job) = key)
              => StatusOf(store, key) \in {Str("done"), Str("error")}
\* two start requests for one record overlapped (the first was answered after
\* the second), and both their jobs were called back
C18_Witness ==
  /\ Quiet /\ Cardinality(AcceptedJobs) = 2
  /\ \A job \in AcceptedJobs : job.id \in AnsweredCallbacks
  /\ \A a, b \in AcceptedJobs : JobKey(a) = JobKey(b)
  /\ \E i, j \in 1..Len(seen.steps) :
       /\ i < j /\ seen.steps[i].h > seen.steps[j].h
       /\ seen.steps[i].route = RouteRecreator /\ seen.steps[j].route = RouteRecreator
  /\ \E job \in AcceptedJobs : StatusOf(store, JobKey(job)) = Str("error")

(***************************************************************************)
(* What the relay leaves alone.                                            *)
(***************************************************************************)
\* the fields of a record other than the five the relay manages
UserPart(record) ==
  [ name \in DOMAIN record
      \ {"Status", "Error Message", "Wavespeed Job ID", "Batch ID", "Output Images"} |->
      record[name] ]

\* C17: the relay creates and deletes no record, every patch it issues names
\* only Status, Error Message, Wavespeed Job ID, Batch ID and Output Images,
\* and every other field of every record keeps the value it had at the start.
C17_OnlyManagedFieldsWritten ==
  /\ DOMAIN store = DOMAIN InitialStore
  /\ \A key \in DOMAIN store : UserPart(store[key]) = UserPart(InitialStore[key])
  /\ \A calls \in Logs : \A i \in 1..Len(calls) :
       calls[i].op = "updateRecord"
         => DOMAIN calls[i].arg
              \subseteq {"Status", "Error Message", "Wavespeed Job ID", "Batch ID", "Output Images"}
C17_Witness ==
  LET key == <<AIRTABLE_TABLE_RECREATOR, "rec1">>
  IN /\ Field(store, key, "Status") = Str("done")
     /\ Field(store, key, "Error Message") = Str("")
     /\ Field(store, key, "Wavespeed Job ID") = Str("job1")
     /\ Field(store, key, "Batch ID") = Str("")
     /\ Field(store, key, "Output Images") # Field(InitialStore, key, "Output Images")
     /\ Field(store, key, "Prompt") = Str("a cat")

\* C19: the patch of the job identifiers names Wavespeed Job ID and Batch ID
\* only; once applied, the record's Status, Error Message and Output Images are
\* those it had before, so what a callback of the job wrote in the meantime is
\* still in place.
C19_JobIdPatchKeepsCallbackFields ==
  /\ \A flow \in Flows : (flow.route \in StartRoutes /\ Len(flow.calls) = 4)
       => DOMAIN flow.calls[4].arg = {"Wavespeed Job ID", "Batch ID"}
  /\ (IsStart /\ Len(last.calls) = 4 /\ LastCallApplied)
       => \A name \in {"Status", "Error Message", "Output Images"} :
            Field(store, StartKey, name) = Field(last.before, StartKey, name)
C19_Witness ==
  /\ IsStart /\ Len(last.calls) = 4 /\ LastCallApplied
  /\ Field(store, StartKey, "Wavespeed Job ID") # Field(last.before, StartKey, "Wavespeed Job ID")
  /\ Field(store, StartKey, "Status") = Str("done")
  /\ Field(store, StartKey, "Output Images")
       = Arr(<<Obj([url |-> Str("https://out/2")]), Obj([url |-> Str("https://out/1")])>>)

\* C20: a start flow whose record fetch fails has issued no patch and no job
\* submission, is answered 500 {error: "Airtable getRecord failed: <status>"},
\* and leaves every field of every record as it was.
C20_FailedFetchTouchesNothing ==
  /\ \A flow \in Flows :
       (flow.route \in StartRoutes /\ flow.calls # <<>>)
         => /\ flow.calls[1].op = "getRecord"
            /\ flow.calls[1].http \notin {0, 200} => Len(flow.calls) = 1
  /\ (IsStart /\ Len(last.calls) = 1 /\ LastCallFailed)
       => /\ last.res.status = 500
          /\ last.res.body =
               Obj([error |-> Str(IF LastCall.http = 404
                                    THEN "Airtable getRecord failed: 404"
                                    ELSE "Airtable getRecord failed: 503")])
          /\ hs[last.h].pc = "done"
          /\ store = last.before
C20_Witness ==
  /\ IsStart /\ Len(last.calls) = 1 /\ LastCall.op = "getRecord" /\ LastCall.http = 503
  /\ last.res.status = 500
  /\ StartKey \in Records
  /\ \E h \in DOMAIN hs : hs[h].pc = "saveJobIds"

====
